---- MODULE Spec2Model ----
(***************************************************************************)
(* Model of scripts/performance/regression-analysis.py: the class          *)
(* PerformanceRegressionAnalyzer and main().                               *)
(*                                                                         *)
(* JSON objects are functions from field names to values; a field that is  *)
(* absent from the object is absent from the function's domain, and the    *)
(* empty object is the empty function <<>>.  JSON numbers (and the float   *)
(* arithmetic of the script) are exact rationals <<numerator, denominator>>*)
(* with a positive denominator; binary floating-point rounding is not      *)
(* modelled.  A formatted string is the tuple of its parts.                *)
(***************************************************************************)
EXTENDS Integers, Sequences, FiniteSets, TLC

VARIABLES
    fs,          \* the files on disk: baseline file, result files, output file
    args,        \* the parsed command line (main, line 369)
    analyzer,    \* the PerformanceRegressionAnalyzer instance
    report,      \* main's local variable report
    stdout,      \* the lines printed so far (by tag)
    pc,          \* main's position
    exit_code,   \* the value main returns, which is the process exit code
    gr_in,       \* argument of a direct call of generate_recommendations
    gr_out       \* its result

vars == <<fs, args, analyzer, report, stdout, pc, exit_code, gr_in, gr_out>>

-----------------------------------------------------------------------------
(* Bounds of the model.                                                    *)

\* Longest list of lighthouse summaries in the baseline / found on disk.
MaxLighthouse == 2
\* Longest list of load-test summaries in the baseline / found on disk.
MaxLoadTests == 2
\* Longest testResults list of a benchmark category.
MaxTestResults == 2
\* Most bundle-analysis-summary.json files found on disk.
MaxBundleFiles == 2
\* Longest regression list handed directly to generate_recommendations.
MaxRegressions == 3

-----------------------------------------------------------------------------
(* Numbers.                                                                *)

Num(n) == <<n, 1>>
Frac(n, d) == <<n, d>>
Zero == Num(0)

Gt(x, y) == x[1] * y[2] > y[1] * x[2]
Eq(x, y) == x[1] * y[2] = y[1] * x[2]
Sub(x, y) == <<x[1] * y[2] - y[1] * x[2], x[2] * y[2]>>
\* x / y for y # 0, keeping the denominator positive
Div(x, y) ==
    IF y[1] > 0 THEN <<x[1] * y[2], x[2] * y[1]>>
                ELSE <<(0 - x[1]) * y[2], (0 - x[2]) * y[1]>>
Max(x, y) == IF Gt(x, y) THEN x ELSE y

\* format spec ".1%": the value times 100 with one decimal, as the number of
\* tenths of a percent, rounded half to even
Pct1(x) ==
    LET n == x[1] * 1000
        q == n \div x[2]
        r == n - q * x[2]
    IN  IF 2 * r > x[2] THEN q + 1
        ELSE IF 2 * r < x[2] THEN q
        ELSE IF q % 2 = 0 THEN q ELSE q + 1

-----------------------------------------------------------------------------
(* JSON objects and Python dicts.                                          *)

EmptyObj == <<>>
\* datetime.now().isoformat(): the wall clock is not modelled
Now == "timestamp"
NoFile == "NoFile"
None == "None"
\* main's local variable report before it is assigned
NoReport == <<>>

\* dict.get(k, default)
Get(obj, k, default) == IF k \in DOMAIN obj THEN obj[k] ELSE default

\* bool(obj) of a dict
Truthy(obj) == DOMAIN obj # {}

\* An insertion-ordered dict: a sequence of <<key, value>> pairs, no key twice.
DictHas(d, k) == \E i \in 1..Len(d) : d[i][1] = k
DictGet(d, k) == d[CHOOSE i \in 1..Len(d) : d[i][1] = k][2]
\* d[k] = v: an existing key keeps its position and takes the new value
DictPut(d, k, v) ==
    IF DictHas(d, k)
    THEN [i \in 1..Len(d) |-> IF d[i][1] = k THEN <<k, v>> ELSE d[i]]
    ELSE Append(d, <<k, v>>)

RECURSIVE DictOf(_)
DictOf(pairs) ==
    IF pairs = <<>> THEN <<>>
    ELSE LET n == Len(pairs)
         IN  DictPut(DictOf(SubSeq(pairs, 1, n - 1)), pairs[n][1], pairs[n][2])

\* list.extend over a sequence of lists
RECURSIVE Concat(_)
Concat(lists) ==
    IF lists = <<>> THEN <<>> ELSE Head(lists) \o Concat(Tail(lists))

\* [r for r in s if Test(r)]
RECURSIVE SelectByField(_, _, _)
SelectByField(s, field, value) ==
    IF s = <<>> THEN <<>>
    ELSE (IF Head(s)[field] = value THEN <<Head(s)>> ELSE <<>>)
         \o SelectByField(Tail(s), field, value)

-----------------------------------------------------------------------------
(* analyze_lighthouse_regression                                           *)

LighthouseMetrics == <<"performance", "accessibility", "bestPractices", "seo">>
LighthouseCritical_Loose == Frac(3, 10)
LighthouseCritical == Frac(2, 10)

LighthouseKey(item) ==
    Get(item, "device", "unknown") \o "-" \o Get(item, "page", "unknown")

LighthouseGrouped(items) ==
    DictOf([i \in 1..Len(items) |-> <<LighthouseKey(items[i]), items[i]>>])

LighthouseCheck(threshold, key, metric, baseline_item, current_item) ==
    LET baseline_value == Get(baseline_item, metric, Zero)
        current_value == Get(current_item, metric, Zero)
        change == Div(Sub(baseline_value, current_value), baseline_value)
    IN  IF Gt(baseline_value, Zero) /\ Gt(change, threshold)
        THEN << [type |-> "lighthouse",
                 metric |-> key \o "-" \o metric,
                 baseline |-> baseline_value,
                 current |-> current_value,
                 change |-> change,
                 severity |-> IF Gt(change, LighthouseCritical)
                              THEN "critical" ELSE "moderate",
                 description |-> <<"Lighthouse ", metric, " degraded by ",
                                   Pct1(change), "% for ", key>>] >>
        ELSE <<>>

analyze_lighthouse_regression(self) ==
    LET baseline_grouped == LighthouseGrouped(Get(self.baseline_data, "lighthouse", <<>>))
        current_grouped == LighthouseGrouped(Get(self.current_data, "lighthouse", <<>>))
    IN  Concat([i \in 1..Len(baseline_grouped) |->
            LET key == baseline_grouped[i][1]
            IN  IF ~DictHas(current_grouped, key) THEN <<>>
                ELSE Concat([m \in 1..Len(LighthouseMetrics) |->
                        LighthouseCheck(self.threshold, key, LighthouseMetrics[m],
                                        baseline_grouped[i][2],
                                        DictGet(current_grouped, key))])])

-----------------------------------------------------------------------------
(* analyze_load_test_regression                                            *)

ResponseTimeCritical_Low == Frac(2, 10)
ResponseTimeCritical == Frac(5, 10)
ErrorRateLimit_TwoPercent == Frac(2, 100)
ErrorRateLimit == Frac(1, 100)

LoadTestGrouped(items) ==
    DictOf([i \in 1..Len(items) |-> <<Get(items[i], "scenario", "unknown"), items[i]>>])

\* item.get('metrics', {}).get(family, {}).get(field, 0)
LoadTestMetric(item, family, field) ==
    Get(Get(Get(item, "metrics", EmptyObj), family, EmptyObj), field, Zero)

ResponseTimeCheck(threshold, scenario, baseline_item, current_item) ==
    LET baseline_rt == LoadTestMetric(baseline_item, "http_req_duration", "avg")
        current_rt == LoadTestMetric(current_item, "http_req_duration", "avg")
        rt_change == Div(Sub(current_rt, baseline_rt), baseline_rt)
    IN  IF Gt(baseline_rt, Zero) /\ Gt(rt_change, threshold)
        THEN << [type |-> "load_test",
                 metric |-> scenario \o "-response_time",
                 baseline |-> baseline_rt,
                 current |-> current_rt,
                 change |-> rt_change,
                 severity |-> IF Gt(rt_change, ResponseTimeCritical)
                              THEN "critical" ELSE "moderate",
                 description |-> <<"Response time increased by ", Pct1(rt_change),
                                   "% for ", scenario, " scenario">>] >>
        ELSE <<>>

ErrorRateCheck(scenario, baseline_item, current_item) ==
    LET baseline_errors == LoadTestMetric(baseline_item, "http_req_failed", "rate")
        current_errors == LoadTestMetric(current_item, "http_req_failed", "rate")
        error_change == Sub(current_errors, baseline_errors)
    IN  IF Gt(error_change, ErrorRateLimit)
        THEN << [type |-> "load_test",
                 metric |-> scenario \o "-error_rate",
                 baseline |-> baseline_errors,
                 current |-> current_errors,
                 change |-> error_change,
                 severity |-> "critical",
                 description |-> <<"Error rate increased by ", Pct1(error_change),
                                   "% for ", scenario, " scenario">>] >>
        ELSE <<>>

analyze_load_test_regression(self) ==
    LET baseline_grouped == LoadTestGrouped(Get(self.baseline_data, "loadTests", <<>>))
        current_grouped == LoadTestGrouped(Get(self.current_data, "loadTests", <<>>))
    IN  Concat([i \in 1..Len(baseline_grouped) |->
            LET scenario == baseline_grouped[i][1]
                baseline_item == baseline_grouped[i][2]
            IN  IF ~DictHas(current_grouped, scenario) THEN <<>>
                ELSE LET current_item == DictGet(current_grouped, scenario)
                     IN  ResponseTimeCheck(self.threshold, scenario,
                                           baseline_item, current_item)
                         \o ErrorRateCheck(scenario, baseline_item, current_item)])

-----------------------------------------------------------------------------
(* analyze_benchmark_regression                                            *)

BenchmarkTypes == <<"memory", "cpu", "algorithm">>

\* the default title f"{test_type}-test-{i}", i counted from 0
DefaultTitle(test_type, i) == test_type \o "-test-" \o ToString(i)

BenchmarkCheck(threshold, test_type, i, baseline_result, current_result) ==
    LET baseline_time == Get(baseline_result, "duration", Zero)
        current_time == Get(current_result, "duration", Zero)
        time_change == Div(Sub(current_time, baseline_time), baseline_time)
        test_name == Get(baseline_result, "title", DefaultTitle(test_type, i))
    IN  IF Gt(baseline_time, Zero) /\ Gt(time_change, threshold)
        THEN << [type |-> "benchmark",
                 metric |-> test_type \o "-" \o test_name,
                 baseline |-> baseline_time,
                 current |-> current_time,
                 change |-> time_change,
                 severity |-> "moderate",
                 description |-> <<"Benchmark ", test_name,
                                   " execution time increased by ",
                                   Pct1(time_change), "%">>] >>
        ELSE <<>>

\* the length test off by one: the last comparable pair is skipped
BenchmarkTypeCheck_OffByOne(threshold, test_type, baseline_test, current_test) ==
    IF ~Truthy(baseline_test) \/ ~Truthy(current_test) THEN <<>>
    ELSE LET baseline_results == Get(baseline_test, "testResults", <<>>)
             current_results == Get(current_test, "testResults", <<>>)
         IN  Concat([j \in 1..Len(baseline_results) |->
                 IF j >= Len(current_results) THEN <<>>
                 ELSE BenchmarkCheck(threshold, test_type, j - 1,
                                     baseline_results[j], current_results[j])])
\* the inner loop for one category; index j here is Python's i + 1
BenchmarkTypeCheck(threshold, test_type, baseline_test, current_test) ==
    IF ~Truthy(baseline_test) \/ ~Truthy(current_test) THEN <<>>
    ELSE LET baseline_results == Get(baseline_test, "testResults", <<>>)
             current_results == Get(current_test, "testResults", <<>>)
         IN  Concat([j \in 1..Len(baseline_results) |->
                 IF j - 1 >= Len(current_results) THEN <<>>
                 ELSE BenchmarkCheck(threshold, test_type, j - 1,
                                     baseline_results[j], current_results[j])])

analyze_benchmark_regression(self) ==
    LET baseline_benchmarks == Get(self.baseline_data, "benchmarks", EmptyObj)
        current_benchmarks == Get(self.current_data, "benchmarks", EmptyObj)
    IN  Concat([t \in 1..Len(BenchmarkTypes) |->
            BenchmarkTypeCheck(self.threshold, BenchmarkTypes[t],
                               Get(baseline_benchmarks, BenchmarkTypes[t], EmptyObj),
                               Get(current_benchmarks, BenchmarkTypes[t], EmptyObj))])

-----------------------------------------------------------------------------
(* analyze_bundle_regression                                               *)

BundleCheck(threshold, baseline_bundle, current_bundle) ==
    LET baseline_size == Get(baseline_bundle, "totalSize", Zero)
        current_size == Get(current_bundle, "totalSize", Zero)
        size_change == Div(Sub(current_size, baseline_size), baseline_size)
    IN  IF Gt(baseline_size, Zero) /\ Gt(size_change, threshold)
        THEN << [type |-> "bundle",
                 metric |-> "total_size",
                 baseline |-> baseline_size,
                 current |-> current_size,
                 change |-> size_change,
                 severity |-> "moderate",
                 description |-> <<"Bundle size increased by ", Pct1(size_change),
                                   "% (", Sub(current_size, baseline_size),
                                   " bytes)">>] >>
        ELSE <<>>

\* without the early return for an empty bundle object
analyze_bundle_regression_NoEmptyCheck(self) ==
    BundleCheck(self.threshold, Get(self.baseline_data, "bundle", EmptyObj),
                Get(self.current_data, "bundle", EmptyObj))
analyze_bundle_regression(self) ==
    LET baseline_bundle == Get(self.baseline_data, "bundle", EmptyObj)
        current_bundle == Get(self.current_data, "bundle", EmptyObj)
    IN  IF ~Truthy(baseline_bundle) \/ ~Truthy(current_bundle) THEN <<>>
        ELSE BundleCheck(self.threshold, baseline_bundle, current_bundle)

-----------------------------------------------------------------------------
(* generate_recommendations and analyze_regressions                        *)

\* The message texts; the emoji that starts each is written as its code point.
MsgBundle == "(U+1F4E6) Bundle size increased - consider code splitting, tree shaking, or dependency analysis"
MsgLighthouse == "(U+1F50D) Lighthouse scores degraded - review Core Web Vitals, optimize images, and minimize JavaScript"
MsgLoadTest == "(U+26A1) Load test performance degraded - check database queries, API responses, and server resources"
MsgBenchmark == "(U+1F9EE) Benchmark performance degraded - review algorithm implementations and memory usage"
MsgCritical == "(U+1F6A8) Critical regressions detected - consider blocking deployment until resolved"
MsgNone == "(U+2705) No significant performance regressions detected"

RecommendIf(selected, message) == IF selected # <<>> THEN <<message>> ELSE <<>>

\* the family order of the report instead of the order of the checks
Recommendations_FamilyOrder(regressions) ==
    RecommendIf(SelectByField(regressions, "type", "lighthouse"), MsgLighthouse)
    \o RecommendIf(SelectByField(regressions, "type", "load_test"), MsgLoadTest)
    \o RecommendIf(SelectByField(regressions, "type", "benchmark"), MsgBenchmark)
    \o RecommendIf(SelectByField(regressions, "type", "bundle"), MsgBundle)
    \o RecommendIf(SelectByField(regressions, "severity", "critical"), MsgCritical)
\* the list after the five checks
Recommendations(regressions) ==
    RecommendIf(SelectByField(regressions, "type", "bundle"), MsgBundle)
    \o RecommendIf(SelectByField(regressions, "type", "lighthouse"), MsgLighthouse)
    \o RecommendIf(SelectByField(regressions, "type", "load_test"), MsgLoadTest)
    \o RecommendIf(SelectByField(regressions, "type", "benchmark"), MsgBenchmark)
    \o RecommendIf(SelectByField(regressions, "severity", "critical"), MsgCritical)

\* without the message for an empty list
generate_recommendations_NoDefault(regressions) == Recommendations(regressions)
generate_recommendations(regressions) ==
    LET recommendations == Recommendations(regressions)
    IN  IF recommendations = <<>> THEN <<MsgNone>> ELSE recommendations

CriticalOf(all_regressions) == SelectByField(all_regressions, "severity", "critical")
ModerateOf_NotFiltered(all_regressions) == all_regressions
ModerateOf(all_regressions) == SelectByField(all_regressions, "severity", "moderate")

\* f"Found {n} performance regressions" and, if any is critical, f" ({k} critical)"
SummaryOf(all_regressions, critical_regressions) ==
    <<"Found ", Len(all_regressions), " performance regressions">>
    \o (IF critical_regressions # <<>>
        THEN <<" (", Len(critical_regressions), " critical)">> ELSE <<>>)

analyze_regressions(self) ==
    LET all_regressions == analyze_lighthouse_regression(self)
                           \o analyze_load_test_regression(self)
                           \o analyze_benchmark_regression(self)
                           \o analyze_bundle_regression(self)
        critical_regressions == CriticalOf(all_regressions)
        moderate_regressions == ModerateOf(all_regressions)
    IN  [summary |-> SummaryOf(all_regressions, critical_regressions),
         regressions |-> all_regressions,
         criticalRegressions |-> critical_regressions,
         moderateRegressions |-> moderate_regressions,
         recommendations |-> generate_recommendations(all_regressions),
         threshold |-> self.threshold,
         timestamp |-> Now]

-----------------------------------------------------------------------------
(* load_baseline, load_current_data, save_report                           *)

\* the first file found, or the initial {} when none is found
FirstOrEmpty(files) == IF files = <<>> THEN EmptyObj ELSE Head(files)

load_current_data(disk) ==
    [lighthouse |-> disk.lighthouse,
     loadTests |-> disk.loadTests,
     benchmarks |-> FirstOrEmpty(disk.benchmarks),
     bundle |-> FirstOrEmpty(disk.bundle),
     timestamp |-> Now]

Printed(tag) == \E i \in 1..Len(stdout) : stdout[i][1] = tag

-----------------------------------------------------------------------------
(* The inputs: baseline file, result files, threshold.                     *)

SeqsUpTo(S, n) == UNION {[1..k -> S] : k \in 0..n}

Thresholds == {Frac(-150, 100), Frac(10, 100), Frac(30, 100), Frac(60, 100)}

Disk(baseline, lighthouse, loadTests, benchmarks, bundle) ==
    [baseline |-> baseline, lighthouse |-> lighthouse, loadTests |-> loadTests,
     benchmarks |-> benchmarks, bundle |-> bundle, output |-> NoFile]

LHBase ==
    { [device |-> "m", page |-> "home", performance |-> Num(100),
       accessibility |-> Num(100), bestPractices |-> Num(0), seo |-> Num(80)],
      [device |-> "m", page |-> "home", performance |-> Num(50)],
      [page |-> "home", performance |-> Num(100), seo |-> Num(100)],
      [device |-> "m-a", page |-> "b", performance |-> Num(100)] }

LHCur ==
    { [device |-> "m", page |-> "home", performance |-> Num(90),
       accessibility |-> Num(80), bestPractices |-> Num(50), seo |-> Num(80)],
      [device |-> "m", page |-> "home", performance |-> Num(85),
       accessibility |-> Num(75), seo |-> Num(76)],
      [device |-> "unknown", page |-> "home"],
      [device |-> "m", page |-> "a-b", performance |-> Num(70)] }

DisksLighthouse ==
    { Disk([lighthouse |-> b], c, <<>>, <<>>, <<>>) :
        b \in SeqsUpTo(LHBase, MaxLighthouse), c \in SeqsUpTo(LHCur, MaxLighthouse) }

LoadTestItem(scenario, avg, rate) ==
    [scenario |-> scenario,
     metrics |-> [http_req_duration |-> [avg |-> avg], http_req_failed |-> [rate |-> rate]]]

LTBase ==
    { LoadTestItem("api", Num(100), Frac(10, 1000)),
      [scenario |-> "api", metrics |-> [http_req_duration |-> [avg |-> Num(0)]]],
      [metrics |-> [http_req_duration |-> [avg |-> Num(200)],
                    http_req_failed |-> [rate |-> Num(0)]]],
      [scenario |-> "api"] }

LTCur ==
    { LoadTestItem("api", Num(110), Frac(20, 1000)),
      LoadTestItem("api", Num(160), Frac(21, 1000)),
      [scenario |-> "unknown", metrics |-> [http_req_failed |-> [rate |-> Frac(50, 1000)]]],
      [scenario |-> "api", metrics |-> [http_req_duration |-> [avg |-> Num(150)]]] }

DisksLoadTest ==
    { Disk([loadTests |-> b], <<>>, c, <<>>, <<>>) :
        b \in SeqsUpTo(LTBase, MaxLoadTests), c \in SeqsUpTo(LTCur, MaxLoadTests) }

BMBaseResults ==
    { [title |-> "sort", duration |-> Num(100)],
      [duration |-> Num(100)],
      [title |-> "sort", duration |-> Num(0)] }

BMCurResults ==
    { [title |-> "sort", duration |-> Num(110)],
      [duration |-> Num(400)],
      [title |-> "sort"] }

BMBase ==
    { [memory |-> [testResults |-> l]] : l \in SeqsUpTo(BMBaseResults, MaxTestResults) }
    \cup { EmptyObj,
           [cpu |-> [testResults |-> <<[duration |-> Num(100)]>>], algorithm |-> EmptyObj],
           [cpu |-> [testResults |-> <<[duration |-> Num(100)]>>],
            algorithm |-> [testResults |-> <<[duration |-> Num(100)]>>]],
           [algorithm |-> [suite |-> "jest"]] }

BMCur ==
    { [memory |-> [testResults |-> l]] : l \in SeqsUpTo(BMCurResults, MaxTestResults) }
    \cup { EmptyObj,
           [cpu |-> [testResults |-> <<[duration |-> Num(400)]>>],
            algorithm |-> [testResults |-> <<[duration |-> Num(400)]>>]] }

BMFiles ==
    { <<>> } \cup { <<c>> : c \in BMCur }
    \cup { <<EmptyObj, [memory |-> [testResults |-> <<[duration |-> Num(400)]>>]]>> }

DisksBenchmark ==
    { Disk([benchmarks |-> b], <<>>, <<>>, c, <<>>) : b \in BMBase, c \in BMFiles }

BUBase ==
    { EmptyObj, [bundle |-> EmptyObj], [bundle |-> [totalSize |-> Num(1000)]],
      [bundle |-> [totalSize |-> Num(0)]], [bundle |-> [files |-> Num(3)]] }

BUCur ==
    { EmptyObj, [totalSize |-> Num(1150)], [totalSize |-> Num(1100)],
      [totalSize |-> Num(1300)], [totalSize |-> Num(900)], [files |-> Num(3)] }

DisksBundle ==
    { Disk(b, <<>>, <<>>, <<>>, c) : b \in BUBase, c \in SeqsUpTo(BUCur, MaxBundleFiles) }

\* All four families at once: nothing, moderate only, or critical in each.
DisksMixed ==
    { Disk([lighthouse |-> <<[device |-> "m", page |-> "home", performance |-> Num(100),
                              seo |-> Num(100)]>>,
            loadTests |-> <<LoadTestItem("api", Num(100), Frac(10, 1000))>>,
            benchmarks |-> [cpu |-> [testResults |-> <<[duration |-> Num(100)]>>]],
            bundle |-> [totalSize |-> Num(1000)]],
           <<[device |-> "m", page |-> "home", performance |-> lh, seo |-> Num(100)]>>,
           <<lt>>,
           <<[cpu |-> [testResults |-> <<[duration |-> bm]>>]]>>,
           <<[totalSize |-> bu]>>) :
        lh \in {Num(100), Num(85), Num(20)},
        lt \in {LoadTestItem("api", Num(100), Frac(10, 1000)),
                LoadTestItem("api", Num(140), Frac(10, 1000)),
                LoadTestItem("api", Num(100), Frac(90, 1000))},
        bm \in {Num(100), Num(900)},
        bu \in {Num(1000), Num(9000)} }

Disks == DisksLighthouse \cup DisksLoadTest \cup DisksBenchmark \cup DisksBundle
         \cup DisksMixed

-----------------------------------------------------------------------------
(* main                                                                    *)

\* PerformanceRegressionAnalyzer.__init__
NewAnalyzer(threshold) ==
    [threshold |-> threshold, baseline_data |-> EmptyObj, current_data |-> EmptyObj,
     regressions |-> <<>>, improvements |-> <<>>]

Init ==
    /\ fs \in Disks
    /\ args \in [threshold : Thresholds]
    /\ analyzer = NewAnalyzer(args.threshold)
    /\ report = NoReport
    /\ stdout = <<>>
    /\ pc = "load_baseline"
    /\ exit_code = None
    /\ gr_in = <<>>
    /\ gr_out = <<>>

\* analyzer.load_baseline(args.baseline) returns True
LoadBaselineOk ==
    /\ pc = "load_baseline"
    /\ analyzer' = [analyzer EXCEPT !.baseline_data = fs.baseline]
    /\ stdout' = Append(stdout, <<"Loaded baseline data">>)
    /\ pc' = "load_current_data"
    /\ UNCHANGED <<fs, args, report, exit_code, gr_in, gr_out>>

\* open() or json.load() raises: load_baseline returns False, main returns 1
LoadBaselineFail ==
    /\ pc = "load_baseline"
    /\ stdout' = Append(stdout, <<"Failed to load baseline">>)
    /\ exit_code' = 1
    /\ pc' = "exited"
    /\ UNCHANGED <<fs, args, analyzer, report, gr_in, gr_out>>

\* analyzer.load_current_data(args.current) returns True
LoadCurrentOk ==
    /\ pc = "load_current_data"
    /\ analyzer' = [analyzer EXCEPT !.current_data = load_current_data(fs)]
    /\ stdout' = Append(stdout, <<"Loaded current performance data">>)
    /\ pc' = "analyze_regressions"
    /\ UNCHANGED <<fs, args, report, exit_code, gr_in, gr_out>>

\* a result file cannot be read or parsed: returns False, main returns 1
LoadCurrentFail ==
    /\ pc = "load_current_data"
    /\ stdout' = Append(stdout, <<"Failed to load current data">>)
    /\ exit_code' = 1
    /\ pc' = "exited"
    /\ UNCHANGED <<fs, args, analyzer, report, gr_in, gr_out>>

\* report = analyzer.analyze_regressions()
AnalyzeRegressions ==
    /\ pc = "analyze_regressions"
    /\ report' = analyze_regressions(analyzer)
    /\ stdout' = Append(stdout, <<"Analyzing performance regressions...">>)
    /\ pc' = "save_report"
    /\ UNCHANGED <<fs, args, analyzer, exit_code, gr_in, gr_out>>

\* the lines 388-397 of main
SummaryLines(rep, threshold) ==
    << <<"Regression Analysis Summary:">>,
       <<"Total regressions: ", Len(rep.regressions)>>,
       <<"Critical regressions: ", Len(rep.criticalRegressions)>>,
       <<"Moderate regressions: ", Len(rep.moderateRegressions)>>,
       <<"Threshold: ", Pct1(threshold)>> >>
    \o (IF rep.recommendations # <<>>
        THEN << <<"Recommendations:">> >>
             \o [i \in 1..Len(rep.recommendations) |-> <<"- ", rep.recommendations[i]>>]
        ELSE <<>>)

\* lines 400-405 of main: the value returned after the report is saved
ExitCodeFor_AnyRegression(rep) == IF rep.regressions # <<>> THEN 1 ELSE 0
ExitCodeFor(rep) == IF rep.criticalRegressions # <<>> THEN 1 ELSE 0

\* save_report returns True; main prints the summary and returns the gate result
SaveReportOk ==
    /\ pc = "save_report"
    /\ fs' = [fs EXCEPT !.output = report]
    /\ stdout' = stdout \o << <<"Regression report saved">> >>
                        \o SummaryLines(report, args.threshold)
                        \o (IF report.criticalRegressions # <<>>
                            THEN << <<"Critical performance regressions detected!">> >>
                            ELSE << <<"Performance regression analysis completed">> >>)
    /\ exit_code' = ExitCodeFor(report)
    /\ pc' = "exited"
    /\ UNCHANGED <<args, analyzer, report, gr_in, gr_out>>

\* open() or json.dump() raises: save_report returns False, main returns 1
SaveReportFail ==
    /\ pc = "save_report"
    /\ stdout' = Append(stdout, <<"Failed to save report">>)
    /\ exit_code' = 1
    /\ pc' = "exited"
    /\ UNCHANGED <<fs, args, analyzer, report, gr_in, gr_out>>

Next ==
    \/ LoadBaselineOk
    \/ LoadBaselineFail
    \/ LoadCurrentOk
    \/ LoadCurrentFail
    \/ AnalyzeRegressions
    \/ SaveReportOk
    \/ SaveReportFail

Spec == Init /\ [][Next]_vars

-----------------------------------------------------------------------------
(* A direct call of generate_recommendations on an arbitrary list.         *)

RegressionSamples ==
    { [type |-> t, metric |-> "m", baseline |-> Num(100), current |-> Num(200),
       change |-> Num(1), severity |-> sv, description |-> <<"d">>] :
        t \in {"lighthouse", "load_test", "benchmark", "bundle"},
        sv \in {"critical", "moderate"} }

InitGR ==
    /\ fs = Disk(EmptyObj, <<>>, <<>>, <<>>, <<>>)
    /\ args \in [threshold : {Frac(10, 100)}]
    /\ analyzer = NewAnalyzer(args.threshold)
    /\ report = NoReport
    /\ stdout = <<>>
    /\ pc = "call_generate_recommendations"
    /\ exit_code = None
    /\ gr_in \in SeqsUpTo(RegressionSamples, MaxRegressions)
    /\ gr_out = <<>>

CallGenerateRecommendations ==
    /\ pc = "call_generate_recommendations"
    /\ gr_out' = generate_recommendations(gr_in)
    /\ pc' = "returned"
    /\ UNCHANGED <<fs, args, analyzer, report, stdout, exit_code, gr_in>>

NextGR == CallGenerateRecommendations

SpecGR == InitGR /\ [][NextGR]_vars

-----------------------------------------------------------------------------
(* Vocabulary of the properties.                                           *)

Analyzed == report # NoReport
Exited == pc = "exited"
LoadsAndWriteSucceeded ==
    /\ Printed("Loaded baseline data")
    /\ Printed("Loaded current performance data")
    /\ Printed("Regression report saved")

\* the record a key stands for after grouping: the last one of the list with it
KeysOf(items, KeyOf(_)) == {KeyOf(items[i]) : i \in 1..Len(items)}
LastWith(items, KeyOf(_), key) ==
    items[CHOOSE i \in 1..Len(items) :
            /\ KeyOf(items[i]) = key
            /\ \A j \in (i + 1)..Len(items) : KeyOf(items[j]) # key]

ScenarioOf(item) == Get(item, "scenario", "unknown")

BaseLighthouse == Get(analyzer.baseline_data, "lighthouse", <<>>)
CurLighthouse == Get(analyzer.current_data, "lighthouse", <<>>)
MatchedPages == KeysOf(BaseLighthouse, LighthouseKey) \cap KeysOf(CurLighthouse, LighthouseKey)
BaseScore(key, metric) == Get(LastWith(BaseLighthouse, LighthouseKey, key), metric, Zero)
CurScore(key, metric) == Get(LastWith(CurLighthouse, LighthouseKey, key), metric, Zero)
ScoreDrop(key, metric) ==
    Div(Sub(BaseScore(key, metric), CurScore(key, metric)), BaseScore(key, metric))

BaseLoadTests == Get(analyzer.baseline_data, "loadTests", <<>>)
CurLoadTests == Get(analyzer.current_data, "loadTests", <<>>)
MatchedScenarios == KeysOf(BaseLoadTests, ScenarioOf) \cap KeysOf(CurLoadTests, ScenarioOf)
BaseLoad(scenario) == LastWith(BaseLoadTests, ScenarioOf, scenario)
CurLoad(scenario) == LastWith(CurLoadTests, ScenarioOf, scenario)
HasPath(obj, a, b, c) ==
    /\ a \in DOMAIN obj
    /\ b \in DOMAIN obj[a]
    /\ c \in DOMAIN obj[a][b]
NumAt(obj, a, b, c) == IF HasPath(obj, a, b, c) THEN obj[a][b][c] ELSE Zero
BaseRt(s) == NumAt(BaseLoad(s), "metrics", "http_req_duration", "avg")
CurRt(s) == NumAt(CurLoad(s), "metrics", "http_req_duration", "avg")
BaseRate(s) == NumAt(BaseLoad(s), "metrics", "http_req_failed", "rate")
CurRate(s) == NumAt(CurLoad(s), "metrics", "http_req_failed", "rate")
RtIncrease(s) == Div(Sub(CurRt(s), BaseRt(s)), BaseRt(s))

\* the positions of the report's regressions of a type and metric name
Emitted(type, metric) ==
    {j \in 1..Len(report.regressions) :
        /\ report.regressions[j].type = type
        /\ report.regressions[j].metric = metric}
EmittedOfType(type) ==
    {j \in 1..Len(report.regressions) : report.regressions[j].type = type}
SomeCritical(regressions) ==
    \E j \in 1..Len(regressions) : regressions[j].severity = "critical"
SomeModerate(regressions) ==
    \E j \in 1..Len(regressions) : regressions[j].severity = "moderate"

-----------------------------------------------------------------------------
-----------------------------------------------------------------------------
(* C2: for every device-page key of both snapshots and every score         *)
(* category with a baseline score > 0, one lighthouse regression is in the *)
(* report iff (baseline - current) / baseline > threshold, and it is       *)
(* critical iff that change is > 0.20 and moderate otherwise.              *)
LighthouseEmitsIff ==
    Analyzed =>
        \A key \in MatchedPages :
            \A metric \in {"performance", "accessibility", "bestPractices", "seo"} :
                Gt(BaseScore(key, metric), Zero) =>
                    LET found == Emitted("lighthouse", key \o "-" \o metric)
                    IN  /\ found # {} <=> Gt(ScoreDrop(key, metric), args.threshold)
                        /\ Cardinality(found) <= 1
                        /\ \A j \in found :
                              /\ report.regressions[j].severity \in {"critical", "moderate"}
                              /\ report.regressions[j].severity = "critical"
                                    <=> Gt(ScoreDrop(key, metric), Frac(20, 100))

\* one matched page with a critical and a moderate score regression and a
\* category that fell by no more than the threshold
LighthouseWitness ==
    /\ Analyzed
    /\ \E key \in MatchedPages :
          /\ \E j \in Emitted("lighthouse", key \o "-performance") :
                report.regressions[j].severity = "moderate"
          /\ \E j \in Emitted("lighthouse", key \o "-accessibility") :
                report.regressions[j].severity = "critical"
          /\ Gt(BaseScore(key, "seo"), Zero)
          /\ Emitted("lighthouse", key \o "-seo") = {}

-----------------------------------------------------------------------------
(* C3: for every scenario of both snapshots, an error-rate regression is   *)
(* in the report iff current_rate - baseline_rate > 0.01; it is critical;  *)
(* neither the threshold nor the response-time check has a say.            *)
ErrorRateEmitsIff ==
    Analyzed =>
        \A s \in MatchedScenarios :
            LET found == Emitted("load_test", s \o "-error_rate")
            IN  /\ found # {} <=> Gt(Sub(CurRate(s), BaseRate(s)), Frac(1, 100))
                /\ Cardinality(found) <= 1
                /\ \A j \in found : report.regressions[j].severity = "critical"

\* an error-rate regression under the largest threshold, for a scenario whose
\* response time raised no regression
ErrorRateWitness ==
    /\ Analyzed
    /\ args.threshold = Frac(60, 100)
    /\ \E s \in MatchedScenarios :
          /\ Emitted("load_test", s \o "-error_rate") # {}
          /\ Emitted("load_test", s \o "-response_time") = {}

-----------------------------------------------------------------------------
(* C4: criticalRegressions and moderateRegressions partition regressions:  *)
(* every record of regressions is in exactly one of them, as often as in   *)
(* regressions, and they hold nothing else.                                *)
Count(list, r) == Cardinality({j \in 1..Len(list) : list[j] = r})
InList(list, r) == \E j \in 1..Len(list) : list[j] = r

SeverityPartition ==
    Analyzed =>
        LET all == report.regressions
            critical == report.criticalRegressions
            moderate == report.moderateRegressions
        IN  /\ \A j \in 1..Len(all) :
                  /\ InList(critical, all[j]) # InList(moderate, all[j])
                  /\ Count(critical, all[j]) + Count(moderate, all[j]) = Count(all, all[j])
            /\ \A j \in 1..Len(critical) : InList(all, critical[j])
            /\ \A j \in 1..Len(moderate) : InList(all, moderate[j])
            /\ Len(critical) + Len(moderate) = Len(all)

\* a report with both parts non-empty
SeverityPartitionWitness ==
    /\ Analyzed
    /\ report.criticalRegressions # <<>>
    /\ report.moderateRegressions # <<>>

-----------------------------------------------------------------------------
(* C5: missing data is nothing to compare: a compared field that is absent *)
(* from the baseline record or from the current record, a key of only one  *)
(* snapshot and a baseline value of zero never cause a regression record.  *)
BaseBenchmarks == Get(analyzer.baseline_data, "benchmarks", EmptyObj)
CurBenchmarks == Get(analyzer.current_data, "benchmarks", EmptyObj)
BaseResults(t) == Get(Get(BaseBenchmarks, t, EmptyObj), "testResults", <<>>)
CurResults(t) == Get(Get(CurBenchmarks, t, EmptyObj), "testResults", <<>>)
BaseBundle == Get(analyzer.baseline_data, "bundle", EmptyObj)
CurBundle == Get(analyzer.current_data, "bundle", EmptyObj)

MissingDataIsSkipped ==
    Analyzed =>
        /\ \A key \in MatchedPages :
              \A metric \in {"performance", "accessibility", "bestPractices", "seo"} :
                  (\/ metric \notin DOMAIN LastWith(BaseLighthouse, LighthouseKey, key)
                   \/ metric \notin DOMAIN LastWith(CurLighthouse, LighthouseKey, key))
                  => Emitted("lighthouse", key \o "-" \o metric) = {}
        /\ \A s \in MatchedScenarios :
              /\ (\/ ~HasPath(BaseLoad(s), "metrics", "http_req_duration", "avg")
                  \/ ~HasPath(CurLoad(s), "metrics", "http_req_duration", "avg"))
                 => Emitted("load_test", s \o "-response_time") = {}
              /\ (\/ ~HasPath(BaseLoad(s), "metrics", "http_req_failed", "rate")
                  \/ ~HasPath(CurLoad(s), "metrics", "http_req_failed", "rate"))
                 => Emitted("load_test", s \o "-error_rate") = {}
        /\ ("totalSize" \notin DOMAIN BaseBundle \/ "totalSize" \notin DOMAIN CurBundle)
              => EmittedOfType("bundle") = {}
        \* every regression comes from a key of both snapshots, and a relative
        \* change from a baseline that is not zero
        /\ \A j \in EmittedOfType("lighthouse") :
              \E key \in MatchedPages :
                  \E metric \in {"performance", "accessibility", "bestPractices", "seo"} :
                      /\ report.regressions[j].metric = key \o "-" \o metric
                      /\ ~Eq(BaseScore(key, metric), Zero)
        /\ \A j \in EmittedOfType("load_test") :
              \E s \in MatchedScenarios :
                  \/ report.regressions[j].metric = s \o "-error_rate"
                  \/ /\ report.regressions[j].metric = s \o "-response_time"
                     /\ ~Eq(BaseRt(s), Zero)
        /\ \A j \in EmittedOfType("benchmark") \cup EmittedOfType("bundle") :
              ~Eq(report.regressions[j].baseline, Zero)

-----------------------------------------------------------------------------
(* C6: a report without regressions recommends exactly the one positive    *)
(* message, and the run exits 0 when the loads and the write succeeded.    *)
NoRegressionsIsClean ==
    (Analyzed /\ report.regressions = <<>>) =>
        /\ report.recommendations =
              <<"(U+2705) No significant performance regressions detected">>
        /\ (Exited /\ LoadsAndWriteSucceeded) => exit_code = 0

\* a finished run that compared matched records and found nothing
NoRegressionsWitness ==
    /\ Exited
    /\ LoadsAndWriteSucceeded
    /\ report.regressions = <<>>
    /\ MatchedPages # {}
    /\ exit_code = 0

-----------------------------------------------------------------------------
(* C7: with both bundle objects non-empty and a baseline totalSize > 0,    *)
(* exactly one bundle regression is emitted if (current - baseline) /      *)
(* baseline > threshold and none otherwise; it has metric total_size, that *)
(* fraction as change, severity moderate and the byte delta in its         *)
(* description (1000 -> 1150 at threshold 0.1: change 0.15, "150 bytes").  *)
(* With an empty or missing bundle object there is no bundle regression.   *)
BundleSize(obj) == Get(obj, "totalSize", Zero)
BundleGrowth == Div(Sub(BundleSize(CurBundle), BundleSize(BaseBundle)), BundleSize(BaseBundle))
HasPart(description, part) == \E k \in 1..Len(description) : description[k] = part

BundleRule ==
    Analyzed =>
        LET found == EmittedOfType("bundle")
        IN  /\ (BaseBundle = EmptyObj \/ CurBundle = EmptyObj) => found = {}
            /\ (BaseBundle # EmptyObj /\ CurBundle # EmptyObj
                /\ Gt(BundleSize(BaseBundle), Zero)) =>
                  IF Gt(BundleGrowth, args.threshold)
                  THEN /\ Cardinality(found) = 1
                       /\ \A j \in found :
                            LET r == report.regressions[j]
                            IN  /\ r.metric = "total_size"
                                /\ Eq(r.change, BundleGrowth)
                                /\ r.severity = "moderate"
                                /\ Len(r.description) = 5
                                /\ r.description[5] = " bytes)"
                                /\ Eq(r.description[4],
                                      Sub(BundleSize(CurBundle), BundleSize(BaseBundle)))
                  ELSE found = {}
            /\ (/\ BaseBundle # EmptyObj
                /\ CurBundle # EmptyObj
                /\ BundleSize(BaseBundle) = Num(1000)
                /\ BundleSize(CurBundle) = Num(1150)
                /\ args.threshold = Frac(10, 100)) =>
                  /\ Cardinality(found) = 1
                  /\ \A j \in found :
                        /\ Eq(report.regressions[j].change, Frac(15, 100))
                        /\ report.regressions[j].severity = "moderate"
                        /\ report.regressions[j].description[4] = Num(150)

\* the example of the specification: 1000 -> 1150 bytes at threshold 0.1
BundleWitness ==
    /\ Analyzed
    /\ BundleSize(BaseBundle) = Num(1000)
    /\ BundleSize(CurBundle) = Num(1150)
    /\ args.threshold = Frac(10, 100)
    /\ EmittedOfType("bundle") # {}

-----------------------------------------------------------------------------
(* C8: for a non-empty regression list, generate_recommendations returns,  *)
(* in this order and each at most once, the bundle, lighthouse, load-test  *)
(* and benchmark messages of the families that have a regression, then the *)
(* critical message if some regression is critical; nothing else matters.  *)
HasType(list, type) == \E j \in 1..Len(list) : list[j].type = type
Bool2Int(b) == IF b THEN 1 ELSE 0

RecommendationOrder ==
    (pc = "returned" /\ gr_in # <<>>) =>
        LET wanted == << <<HasType(gr_in, "bundle"),
                           "(U+1F4E6) Bundle size increased - consider code splitting, tree shaking, or dependency analysis">>,
                         <<HasType(gr_in, "lighthouse"),
                           "(U+1F50D) Lighthouse scores degraded - review Core Web Vitals, optimize images, and minimize JavaScript">>,
                         <<HasType(gr_in, "load_test"),
                           "(U+26A1) Load test performance degraded - check database queries, API responses, and server resources">>,
                         <<HasType(gr_in, "benchmark"),
                           "(U+1F9EE) Benchmark performance degraded - review algorithm implementations and memory usage">>,
                         <<SomeCritical(gr_in),
                           "(U+1F6A8) Critical regressions detected - consider blocking deployment until resolved">> >>
            \* the position of wanted message k in the result
            Pos(k) == Cardinality({i \in 1..k : wanted[i][1]})
        IN  /\ Len(gr_out) = Pos(5)
            /\ \A k \in 1..5 : wanted[k][1] => gr_out[Pos(k)] = wanted[k][2]

\* several regressions of one family, out of the family order, one critical
RecommendationWitness ==
    /\ pc = "returned"
    /\ Len(gr_in) = 3
    /\ gr_in[1].type = "benchmark"
    /\ gr_in[2].type = "bundle"
    /\ gr_in[3].type = "bundle"
    /\ gr_in[3].severity = "critical"
    /\ Len(gr_out) = 3

-----------------------------------------------------------------------------
(* C9: in each of memory, cpu and algorithm present in both snapshots,     *)
(* baseline result i is compared with current result i only, for the i     *)
(* below both lengths; a pair with baseline duration > 0 gives a           *)
(* regression iff (current - baseline) / baseline > threshold, and every   *)
(* benchmark regression is moderate.                                       *)
Min(a, b) == IF a < b THEN a ELSE b
Duration(result) == Get(result, "duration", Zero)
Slower(t, i) ==
    Div(Sub(Duration(CurResults(t)[i]), Duration(BaseResults(t)[i])),
        Duration(BaseResults(t)[i]))
\* the compared pairs that regress: <<category, position counted from 1>>
ComparedPairs ==
    UNION { {<<t, i>> : i \in 1..Min(Len(BaseResults(t)), Len(CurResults(t)))} :
            t \in {"memory", "cpu", "algorithm"} }
SlowPairs ==
    {p \in ComparedPairs :
        /\ Gt(Duration(BaseResults(p[1])[p[2]]), Zero)
        /\ Gt(Slower(p[1], p[2]), args.threshold)}

BenchmarkPositional ==
    Analyzed =>
        /\ Cardinality(EmittedOfType("benchmark")) = Cardinality(SlowPairs)
        /\ \A p \in SlowPairs :
              \E j \in EmittedOfType("benchmark") :
                  LET r == report.regressions[j]
                  IN  /\ r.baseline = Duration(BaseResults(p[1])[p[2]])
                      /\ r.current = Duration(CurResults(p[1])[p[2]])
                      /\ r.metric = p[1] \o "-"
                            \o Get(BaseResults(p[1])[p[2]], "title",
                                   p[1] \o "-test-" \o ToString(p[2] - 1))
        /\ \A j \in EmittedOfType("benchmark") :
              report.regressions[j].severity = "moderate"

\* the baseline has more results than the current run, the last compared pair
\* regresses by more than 100%
BenchmarkWitness ==
    /\ Analyzed
    /\ Len(BaseResults("memory")) = 2
    /\ Len(CurResults("memory")) = 1
    /\ <<"memory", 1>> \in SlowPairs
    /\ Gt(Slower("memory", 1), Num(1))
    /\ Cardinality(EmittedOfType("benchmark")) = 1

-----------------------------------------------------------------------------
(* C10: when both loads and the write succeeded, the exit code is 1 iff a  *)
(* matched page has a score with baseline > 0 that fell by more than       *)
(* max(threshold, 0.20), or a matched scenario has a baseline response     *)
(* time > 0 that grew by more than max(threshold, 0.5), or a matched       *)
(* scenario's error rate grew by more than 0.01.                           *)
GateCondition ==
    \/ \E key \in MatchedPages :
          \E metric \in {"performance", "accessibility", "bestPractices", "seo"} :
              /\ Gt(BaseScore(key, metric), Zero)
              /\ Gt(ScoreDrop(key, metric), Max(args.threshold, Frac(20, 100)))
    \/ \E s \in MatchedScenarios :
          /\ Gt(BaseRt(s), Zero)
          /\ Gt(RtIncrease(s), Max(args.threshold, Frac(5, 10)))
    \/ \E s \in MatchedScenarios :
          Gt(Sub(CurRate(s), BaseRate(s)), Frac(1, 100))

ExitGate ==
    (Exited /\ LoadsAndWriteSucceeded) => (exit_code = 1 <=> GateCondition)

\* exit code 0 with a benchmark and a bundle regression of 800% each
ExitGateWitness ==
    /\ Exited
    /\ LoadsAndWriteSucceeded
    /\ exit_code = 0
    /\ \E j \in EmittedOfType("benchmark") : Gt(report.regressions[j].change, Num(5))
    /\ \E j \in EmittedOfType("bundle") : Gt(report.regressions[j].change, Num(5))

====
